---- MODULE Spec2Model ----
(***************************************************************************)
(* Model of fastapi_app/main.py: the chat relay with its in-memory         *)
(* conversation store (conversations), the spreadsheet log sink            *)
(* (log_to_sheets, with the local fallback file) and the three request     *)
(* handlers new_session, chat and test_log.                                *)
(*                                                                         *)
(* Strings are sequences of tokens (a token is a character or an atomic    *)
(* word), so that str.strip(), the f-string of the conversation key and    *)
(* the comma-joined fallback line are computed, not assumed.  A JSON value *)
(* is a record [t, s]: t its type, s its text.                             *)
(***************************************************************************)
EXTENDS Integers, Sequences, FiniteSets, TLC

(* ------------------------------ bounds -------------------------------- *)
\* requests received in one behaviour of Spec (all three endpoints)
MaxRequests == 2
\* chat requests received in one behaviour of SpecStore
MaxChats == 6
\* chat/session requests received in one behaviour of SpecResolve
MaxResolve == 1
\* remote appends that fail in one behaviour of Spec
MaxSinkFailures == 1
\* handler tasks that can be in flight at once
NumTasks == 2

(* ------------------------- program constants -------------------------- *)
\* main.py:263-264  if len(conversations[conv_key]) > 10: ... [-10:]
MaxHistory == 10

(* ------------------------------ strings ------------------------------- *)
Whitespace == {" ", "\n", "\t"}

RECURSIVE lstrip(_)
lstrip(s) == IF s # <<>> /\ Head(s) \in Whitespace THEN lstrip(Tail(s)) ELSE s

RECURSIVE rstrip(_)
rstrip(s) ==
    IF s # <<>> /\ s[Len(s)] \in Whitespace
    THEN rstrip(SubSeq(s, 1, Len(s) - 1))
    ELSE s

\* str.strip()
strip(s) == rstrip(lstrip(s))

\* number of line terminators in a text
RECURSIVE Newlines(_)
Newlines(s) ==
    IF s = <<>> THEN 0
    ELSE (IF Head(s) = "\n" THEN 1 ELSE 0) + Newlines(Tail(s))

(* ---------------------------- JSON values ----------------------------- *)
Str(s)   == [t |-> "str", s |-> s]
Num(s)   == [t |-> "num", s |-> s]
None     == [t |-> "null", s |-> <<>>]
Absent   == [t |-> "absent", s |-> <<>>]

\* dict.get(key, default) / query_params.get(key, default)
Get(v, default) == IF v.t = "absent" THEN default ELSE v

\* Python truthiness of a JSON scalar
Truthy(v) ==
    CASE v.t = "str" -> v.s # <<>>
      [] v.t = "num" -> v.s # <<"0">>
      [] OTHER -> FALSE

\* a or b
PyOr(a, b) == IF Truthy(a) THEN a ELSE b

\* str(v)
PyStr(v) == IF v.t = "null" THEN <<"None">> ELSE v.s

\* v.strip() is defined on strings only; anything else raises AttributeError
HasStrip(v) == v.t = "str"

(* ------------------------- module constants --------------------------- *)
\* main.py:21-64  the fixed system instruction, one message
SYSTEM_PROMPT == <<"SYSTEM_PROMPT">>

\* main.py:67-76
BOT_ID_MAP ==
    [c \in {"1", "2", "3", "4", "5", "6", "7", "8"} |->
        CASE c = "1" -> "LongBot1" [] c = "2" -> "LongBot2"
          [] c = "3" -> "LongBot3" [] c = "4" -> "LongBot4"
          [] c = "5" -> "LongBot5" [] c = "6" -> "LongBot6"
          [] c = "7" -> "LongBot7" [] c = "8" -> "LongBot8"]

\* BOT_ID_MAP.get(key, default) on strings
BotIdMapGetWrong(key, default) ==
    IF Len(key) = 1 /\ key[1] \in DOMAIN BOT_ID_MAP
    THEN <<"LongBot1">>
    ELSE default

BotIdMapGet(key, default) ==
    IF Len(key) = 1 /\ key[1] \in DOMAIN BOT_ID_MAP
    THEN <<BOT_ID_MAP[key[1]]>>
    ELSE default

\* main.py:291
APOLOGY == <<"Sorry, I couldn't generate a response right now.">>

\* main.py:181
ARM == <<"crt-random">>

(* ------------------------------- state -------------------------------- *)
VARIABLES
    sheet,          \* main.py:89-105  "None" or "worksheet"; fixed at startup
    client,         \* main.py:107-112 "None" or "OpenAI"; fixed at startup
    conversations,  \* main.py:224     conv_key -> list of turns
    appended,       \* conv_key -> every turn ever appended to its list, in order
    calls,          \* every invocation of log_to_sheets, in order
    remote,         \* every sheet.append_row attempt, in order: the row, whether
                    \* the append succeeded, whether the fallback line was written
    backup,         \* text of sheet_log_backup.txt
    clock,          \* wall clock read by now_iso() and time.time(); a remote
                    \* call takes one tick, so two readings around it differ
    completions,    \* number of client.chat.completions.create calls made
    task,           \* the handler tasks: position and locals of each
    running,        \* the task holding the event-loop thread, 0 when it is free
    received        \* number of requests received so far, per endpoint

vars == <<sheet, client, conversations, appended, calls, remote, backup, clock,
          completions, task, running, received>>

Tasks == 1 .. NumTasks

NoPayload ==
    [kind |-> "none", prolific_pid |-> Absent, test_pid |-> Absent,
     pid |-> Absent, bot |-> Absent, message |-> Absent]

NoResponse == [status |-> 0, body |-> <<>>]

InitTask ==
    [pc |-> "idle", kind |-> "none", payload |-> NoPayload,
     prolific_pid |-> None, bot_id |-> <<>>, user_msg |-> <<>>,
     conv_key |-> <<>>, messages |-> <<>>, reply |-> <<>>,
     response |-> NoResponse, calls0 |-> 0, completions0 |-> 0,
     completed |-> "no"]

\* main.py:89-112, 224: the state once the module is imported
Init ==
    /\ sheet \in {"None", "worksheet"}
    /\ client \in {"None", "OpenAI"}
    /\ conversations = <<>>
    /\ appended = <<>>
    /\ calls = <<>>
    /\ remote = <<>>
    /\ backup = <<>>
    /\ clock = 0
    /\ completions = 0
    /\ task = [t \in Tasks |-> InitTask]
    /\ running = 0
    /\ received = [k \in {"chat", "session", "test"} |-> 0]

(* ----------------------------- helpers -------------------------------- *)
Received == received["chat"] + received["session"] + received["test"]

\* main.py:164-165
now_iso(c) == "T" \o ToString(c)

\* main.py:161-162: a fresh 16-digit token; two draws may differ
SessionIds == {"id-a", "id-b"}

Failed(r) == ~r.ok
Succeeded(r) == r.ok
SinkFailures(rem) == Len(SelectSeq(rem, Failed))

\* the rows the remote sheet holds
SheetRows(rem) == SelectSeq(rem, Succeeded)

\* main.py:178-185: the row built by log_to_sheets
Row(timestamp, prolific_pid, bot_id, role, content) ==
    [timestamp |-> timestamp,
     pid |-> IF Truthy(prolific_pid) THEN PyStr(prolific_pid) ELSE <<>>,
     bot |-> IF Truthy(bot_id) THEN PyStr(bot_id) ELSE <<>>,
     arm |-> ARM, role |-> role, content |-> content]

\* main.py:193: the text written to the fallback file for a row
BackupLine(row) ==
    <<row.timestamp, ", ">> \o row.pid \o <<", ">> \o row.bot \o <<", ">>
        \o row.arm \o <<", ", row.role, ", ">> \o row.content \o <<"\n">>

\* what the environment decides during one log_to_sheets call: whether the
\* remote append succeeds and, if not, whether the fallback write succeeds;
\* at most maxfail remote appends fail in a behaviour
SinkEnvs(S, maxfail) ==
    { e \in [append_ok : BOOLEAN, write_ok : BOOLEAN] :
        /\ e.append_ok => e.write_ok
        /\ ~e.append_ok => SinkFailures(S.remote) < maxfail
        /\ sheet = "None" => e.append_ok }

Sink == [calls |-> calls, remote |-> remote, backup |-> backup, clock |-> clock,
         raised |-> FALSE]

(* ------------------------------ log sink ------------------------------ *)
\* log_to_sheets without the inner try: a failing fallback write propagates
log_to_sheets_NoInnerTry(S, prolific_pid, bot_id, role, content, e) ==
    LET S1 == [S EXCEPT !.calls = Append(@, [pid |-> prolific_pid, bot |-> bot_id,
                                             role |-> role, content |-> content])]
    IN  IF sheet = "None"
        THEN S1
        ELSE
          LET timestamp == now_iso(S.clock)
              row == Row(timestamp, prolific_pid, bot_id, role, content)
              S2 == [S1 EXCEPT !.remote = Append(@, [row |-> row, ok |-> e.append_ok,
                                                     written |-> ~e.append_ok /\ e.write_ok]),
                               !.clock = @ + 1]
          IN  IF e.append_ok
              THEN S2
              ELSE IF e.write_ok
                   THEN [S2 EXCEPT !.backup = @ \o BackupLine(row)]
                   ELSE [S2 EXCEPT !.raised = TRUE]

\* log_to_sheets with the fallback line stamped by a second now_iso() reading
log_to_sheets_Restamp(S, prolific_pid, bot_id, role, content, e) ==
    LET S1 == [S EXCEPT !.calls = Append(@, [pid |-> prolific_pid, bot |-> bot_id,
                                             role |-> role, content |-> content])]
    IN  IF sheet = "None"
        THEN S1
        ELSE
          LET timestamp == now_iso(S.clock)
              row == Row(timestamp, prolific_pid, bot_id, role, content)
              S2 == [S1 EXCEPT !.remote = Append(@, [row |-> row, ok |-> e.append_ok,
                                                     written |-> ~e.append_ok /\ e.write_ok]),
                               !.clock = @ + 1]
          IN  IF e.append_ok
              THEN S2
              ELSE IF e.write_ok
                   THEN [S2 EXCEPT !.backup = @ \o
                            BackupLine([row EXCEPT !.timestamp = now_iso(S2.clock)])]
                   ELSE S2

\* main.py:168-196.  S is the sink's state before the call, e what the
\* environment does during it; the result is the state after the call, with
\* raised = TRUE when an exception leaves the function.
log_to_sheets(S, prolific_pid, bot_id, role, content, e) ==
    LET S1 == [S EXCEPT !.calls = Append(@, [pid |-> prolific_pid, bot |-> bot_id,
                                             role |-> role, content |-> content])]
    IN  IF sheet = "None"
        THEN S1                                           \* 173-175
        ELSE
          LET timestamp == now_iso(S.clock)               \* 178
              row == Row(timestamp, prolific_pid, bot_id, role, content)
              S2 == [S1 EXCEPT !.remote = Append(@, [row |-> row, ok |-> e.append_ok,
                                                     written |-> ~e.append_ok /\ e.write_ok]),
                               !.clock = @ + 1]           \* 186
          IN  IF e.append_ok
              THEN S2                                     \* 187
              ELSE IF e.write_ok                          \* 188-196
                   THEN [S2 EXCEPT !.backup = @ \o BackupLine(row)]
                   ELSE S2

SetSink(R) ==
    /\ calls' = R.calls
    /\ remote' = R.remote
    /\ backup' = R.backup
    /\ clock' = R.clock

(* ----------------------------- responses ------------------------------ *)
\* JSONResponse({"error": msg}, status_code=400)
ErrorResponse(msg) == [status |-> 400, body |-> ("error" :> <<msg>>)]

\* an exception that leaves the handler: the framework answers 500
Unhandled == [status |-> 500, body |-> ("detail" :> <<"Internal Server Error">>)]

\* main.py:297-298
ChatResponse(reply, prolific_pid, bot_id, now) ==
    [status |-> 200,
     body |-> ("reply" :> reply) @@
              ("session_id" :> (PyStr(prolific_pid) \o <<":">> \o bot_id
                                  \o <<":", ToString(now)>>))]

\* main.py:217-221
SessionResponse(session_id, prolific_pid, bot_id) ==
    [status |-> 200,
     body |-> ("session_id" :> <<session_id>>) @@
              ("prolific_pid" :> PyStr(prolific_pid)) @@
              ("bot_id" :> bot_id)]

\* main.py:309, 311
TestLogResponse(status) ==
    [status |-> 200,
     body |-> ("status" :> <<status>>)]

\* GetOrCreate starting a new store for a key it does not hold
GetOrCreateFresh(cs, key) == IF key \in DOMAIN cs THEN cs ELSE (key :> <<>>)

(* ------------------------ conversation store -------------------------- *)
\* main.py:256-257
GetOrCreate(cs, key) == IF key \in DOMAIN cs THEN cs ELSE cs @@ (key :> <<>>)

\* Truncate without the cut
TruncateNever(h) == h

\* main.py:263-264
Truncate(h) ==
    IF Len(h) > MaxHistory THEN SubSeq(h, Len(h) - MaxHistory + 1, Len(h)) ELSE h

\* main.py:256-264: the user turn is appended, then the list is cut
StoreUser(cs, key, user_msg) ==
    LET c1 == GetOrCreate(cs, key)
        h  == Append(c1[key], [role |-> "user", content |-> user_msg])
    IN  [c1 EXCEPT ![key] = Truncate(h)]

\* the history variable appended: turn is one more turn appended under key
Record(ap, key, turn) ==
    IF key \in DOMAIN ap
    THEN [ap EXCEPT ![key] = Append(@, turn)]
    ELSE ap @@ (key :> <<turn>>)

\* StoreAssistant appending the reply under every key of the store
StoreAssistantAll(cs, key, reply) ==
    [k \in DOMAIN cs |-> Append(cs[k], [role |-> "assistant", content |-> reply])]

\* main.py:287: the assistant turn is appended, and nothing is cut
StoreAssistant(cs, key, reply) ==
    [cs EXCEPT ![key] = Append(@, [role |-> "assistant", content |-> reply])]

(* ------------------------------- chat --------------------------------- *)
\* main.py:239
ResolvePid(p) ==
    PyOr(PyOr(PyOr(Get(p.prolific_pid, None), Get(p.test_pid, None)),
              Get(p.pid, None)),
         Str(<<"NO_PID">>))

\* main.py:250
ChatBotId(bot_param) == BotIdMapGet(PyStr(bot_param), PyStr(bot_param))

\* main.py:253
ConvKey(prolific_pid, bot_id) == PyStr(prolific_pid) \o <<":">> \o bot_id

\* main.py:233-247: how the handler leaves its first lines
\*   "invalid"   request.json() raised, 400
\*   "raise"     payload.get or .strip() raised and nothing catches it
\*   "message"   400 for the message, "bot" 400 for the bot, "ok" goes on
ParseOutcome(p) ==
    IF p.kind = "invalid" THEN "invalid"
    ELSE IF p.kind # "object" THEN "raise"                 \* 239
    ELSE IF ~HasStrip(Get(p.message, Str(<<>>))) THEN "raise"   \* 241
    ELSE IF strip(Get(p.message, Str(<<>>)).s) = <<>> THEN "message"
    ELSE IF ~Truthy(Get(p.bot, Str(<<>>))) THEN "bot"
    ELSE "ok"

Finish(t, response) ==
    [task EXCEPT ![t].pc = "done", ![t].response = response]

\* the lowest task slot that holds no request in progress
FreeSlot(t) ==
    /\ task[t].pc \in {"idle", "done"}
    /\ \A u \in Tasks : u < t => task[u].pc \notin {"idle", "done"}

\* POST /api/chat arrives: the handler starts and suspends in
\* `await request.json()` (main.py:234)
ChatArrive(t, payload, max) ==
    /\ running = 0
    /\ FreeSlot(t)
    /\ Received < max
    /\ received' = [received EXCEPT !["chat"] = @ + 1]
    /\ task' = [task EXCEPT ![t] = [InitTask EXCEPT !.pc = "json", !.kind = "chat",
                                                    !.payload = payload]]
    /\ UNCHANGED <<sheet, client, conversations, appended, calls, remote, backup, clock,
                   completions, running>>

\* main.py:234-253: the body is read; from here to the response the handler
\* never awaits, so it keeps the event-loop thread
ChatParse(t) ==
    /\ running = 0
    /\ task[t].pc = "json"
    /\ LET p == task[t].payload
           o == ParseOutcome(p)
       IN  CASE o = "invalid" ->
                  /\ task' = Finish(t, ErrorResponse("Invalid JSON body"))
                  /\ UNCHANGED running
             [] o = "raise" ->
                  /\ task' = Finish(t, Unhandled)
                  /\ UNCHANGED running
             [] o = "message" ->
                  /\ task' = Finish(t, ErrorResponse("Missing required field 'message'"))
                  /\ UNCHANGED running
             [] o = "bot" ->
                  /\ task' = Finish(t, ErrorResponse("Missing required field 'bot'"))
                  /\ UNCHANGED running
             [] o = "ok" ->
                  LET prolific_pid == ResolvePid(p)
                      bot_id == ChatBotId(Get(p.bot, Str(<<>>)))
                  IN  /\ task' = [task EXCEPT
                             ![t].pc = "store",
                             ![t].prolific_pid = prolific_pid,
                             ![t].bot_id = bot_id,
                             ![t].user_msg = strip(Get(p.message, Str(<<>>)).s),
                             ![t].conv_key = ConvKey(prolific_pid, bot_id),
                             ![t].calls0 = Len(calls),
                             ![t].completions0 = completions]
                      /\ running' = t
    /\ UNCHANGED <<sheet, client, conversations, appended, calls, remote, backup, clock,
                   completions, received>>

\* main.py:255-264
ChatStore(t) ==
    /\ running = t
    /\ task[t].pc = "store"
    /\ conversations' = StoreUser(conversations, task[t].conv_key, task[t].user_msg)
    /\ appended' = Record(appended, task[t].conv_key,
                          [role |-> "user", content |-> task[t].user_msg])
    /\ task' = [task EXCEPT ![t].pc = "log_user"]
    /\ UNCHANGED <<sheet, client, calls, remote, backup, clock, completions,
                   running, received>>

\* a log_to_sheets call of the chat handler, then position `next`
ChatLog(t, role, content, next, maxfail) ==
    \E e \in SinkEnvs(Sink, maxfail) :
        LET R == log_to_sheets(Sink, task[t].prolific_pid, Str(task[t].bot_id),
                               role, content, e)
        IN  /\ SetSink(R)
            /\ IF R.raised
               THEN /\ task' = Finish(t, Unhandled)
                    /\ running' = 0
               ELSE /\ task' = [task EXCEPT ![t].pc = next]
                    /\ UNCHANGED running

\* ChatLogUser logging the message as received, untrimmed
ChatLogUserRaw(t, maxfail) ==
    /\ running = t
    /\ task[t].pc = "log_user"
    /\ ChatLog(t, "user", task[t].payload.message.s, "complete", maxfail)
    /\ UNCHANGED <<sheet, client, conversations, appended, completions, received>>

\* main.py:267
ChatLogUser(t, maxfail) ==
    /\ running = t
    /\ task[t].pc = "log_user"
    /\ ChatLog(t, "user", task[t].user_msg, "complete", maxfail)
    /\ UNCHANGED <<sheet, client, conversations, appended, completions, received>>

\* what the completion service does with one call: it raises, or it
\* returns a first choice whose content is None or a text
CompletionResults(contents) ==
    {[kind |-> "raise", content |-> None]} \cup
    {[kind |-> "ok", content |-> c] : c \in contents}

\* Completion with the except branch answering the error text
CompletionErrorText(cs, key, out) ==
    IF client = "None"
    THEN [reply |-> <<"OpenAI client not initialized">>, cs |-> cs,
          messages |-> <<>>, ok |-> FALSE]
    ELSE
      LET messages == <<[role |-> "system", content |-> SYSTEM_PROMPT]>> \o cs[key]
      IN  IF out.kind = "raise" \/ ~HasStrip(out.content)
          THEN [reply |-> <<"error">>, cs |-> cs, messages |-> messages, ok |-> FALSE]
          ELSE [reply |-> strip(out.content.s),
                cs |-> StoreAssistant(cs, key, strip(out.content.s)),
                messages |-> messages, ok |-> TRUE]

\* Completion with the except branch storing the apology as an assistant turn
CompletionStoresApology(cs, key, out) ==
    IF client = "None"
    THEN [reply |-> APOLOGY, cs |-> StoreAssistant(cs, key, APOLOGY),
          messages |-> <<>>, ok |-> FALSE]
    ELSE
      LET messages == <<[role |-> "system", content |-> SYSTEM_PROMPT]>> \o cs[key]
      IN  IF out.kind = "raise" \/ ~HasStrip(out.content)
          THEN [reply |-> APOLOGY, cs |-> StoreAssistant(cs, key, APOLOGY),
                messages |-> messages, ok |-> FALSE]
          ELSE [reply |-> strip(out.content.s),
                cs |-> StoreAssistant(cs, key, strip(out.content.s)),
                messages |-> messages, ok |-> TRUE]

\* main.py:270-291.  The result: the reply, the store, the message list
\* sent (empty when no call was made) and whether the try block completed.
Completion(cs, key, out) ==
    IF client = "None"                                     \* 271-272
    THEN [reply |-> APOLOGY, cs |-> cs, messages |-> <<>>, ok |-> FALSE]
    ELSE
      LET messages == <<[role |-> "system", content |-> SYSTEM_PROMPT]>> \o cs[key]
      IN  IF out.kind = "raise" \/ ~HasStrip(out.content)  \* 278-284 raise
          THEN [reply |-> APOLOGY, cs |-> cs, messages |-> messages, ok |-> FALSE]
          ELSE [reply |-> strip(out.content.s),
                cs |-> StoreAssistant(cs, key, strip(out.content.s)),
                messages |-> messages, ok |-> TRUE]

\* main.py:269-291
ChatComplete(t, contents) ==
    /\ running = t
    /\ task[t].pc = "complete"
    /\ \E out \in CompletionResults(contents) :
         LET C == Completion(conversations, task[t].conv_key, out)
         IN  /\ client = "None" => out.kind = "raise"
             /\ conversations' = C.cs
             /\ appended' = IF C.ok
                            THEN Record(appended, task[t].conv_key,
                                        [role |-> "assistant", content |-> C.reply])
                            ELSE appended
             /\ completions' = IF client = "None" THEN completions ELSE completions + 1
             /\ clock' = IF client = "None" THEN clock ELSE clock + 1
             /\ task' = [task EXCEPT ![t].pc = "log_assistant",
                                     ![t].messages = C.messages,
                                     ![t].reply = C.reply,
                                     ![t].completed = IF C.ok THEN "ok" ELSE "failed"]
    /\ UNCHANGED <<sheet, client, calls, remote, backup, running, received>>

\* main.py:294
ChatLogAssistant(t, maxfail) ==
    /\ running = t
    /\ task[t].pc = "log_assistant"
    /\ ChatLog(t, "assistant", task[t].reply, "respond", maxfail)
    /\ UNCHANGED <<sheet, client, conversations, appended, completions, received>>

\* main.py:297-298
ChatRespond(t) ==
    /\ running = t
    /\ task[t].pc = "respond"
    /\ task' = Finish(t, ChatResponse(task[t].reply, task[t].prolific_pid,
                                      task[t].bot_id, clock))
    /\ running' = 0
    /\ UNCHANGED <<sheet, client, conversations, appended, calls, remote, backup, clock,
                   completions, received>>

(* ---------------------------- new_session ----------------------------- *)
\* main.py:211
SessionBotId(bot_param) ==
    IF Truthy(bot_param)
    THEN BotIdMapGet(PyStr(bot_param), PyStr(bot_param))
    ELSE <<"UnknownBot">>

\* new_session drawing a second identifier for the row it logs
new_session_TwoIds(t, query, max, maxfail) ==
    /\ running = 0
    /\ FreeSlot(t)
    /\ Received < max
    /\ received' = [received EXCEPT !["session"] = @ + 1]
    /\ \E session_id \in SessionIds, logged_id \in SessionIds,
          e \in SinkEnvs(Sink, maxfail) :
         LET prolific_pid == Get(query.pid, Str(<<"NO_PID">>))
             bot_param == Get(query.bot, Str(<<>>))
             bot_id == SessionBotId(bot_param)
             R == log_to_sheets(Sink, prolific_pid, Str(bot_id), "session",
                                <<"session_created:", logged_id>>, e)
         IN  /\ SetSink(R)
             /\ task' = [task EXCEPT ![t] =
                   [InitTask EXCEPT
                      !.pc = "done", !.kind = "session",
                      !.payload = [NoPayload EXCEPT !.kind = "query",
                                       !.pid = query.pid, !.bot = query.bot],
                      !.prolific_pid = prolific_pid, !.bot_id = bot_id,
                      !.calls0 = Len(calls), !.completions0 = completions,
                      !.response = IF R.raised THEN Unhandled
                                   ELSE SessionResponse(session_id, prolific_pid, bot_id)]]
    /\ UNCHANGED <<sheet, client, conversations, appended, completions, running>>

\* main.py:201-221: the handler has no await; it runs from start to response
new_session(t, query, max, maxfail) ==
    /\ running = 0
    /\ FreeSlot(t)
    /\ Received < max
    /\ received' = [received EXCEPT !["session"] = @ + 1]
    /\ \E session_id \in SessionIds, e \in SinkEnvs(Sink, maxfail) :
         LET prolific_pid == Get(query.pid, Str(<<"NO_PID">>))      \* 207
             bot_param == Get(query.bot, Str(<<>>))                 \* 208
             bot_id == SessionBotId(bot_param)
             R == log_to_sheets(Sink, prolific_pid, Str(bot_id), "session",
                                <<"session_created:", session_id>>, e)
         IN  /\ SetSink(R)
             /\ task' = [task EXCEPT ![t] =
                   [InitTask EXCEPT
                      !.pc = "done", !.kind = "session",
                      !.payload = [NoPayload EXCEPT !.kind = "query",
                                       !.pid = query.pid, !.bot = query.bot],
                      !.prolific_pid = prolific_pid, !.bot_id = bot_id,
                      !.calls0 = Len(calls), !.completions0 = completions,
                      !.response = IF R.raised THEN Unhandled
                                   ELSE SessionResponse(session_id, prolific_pid, bot_id)]]
    /\ UNCHANGED <<sheet, client, conversations, appended, completions, running>>

(* ------------------------------ test_log ------------------------------ *)
\* test_log skipping a row the sink was already given
test_log_Dedup(t, max, maxfail) ==
    /\ running = 0
    /\ FreeSlot(t)
    /\ Received < max
    /\ received' = [received EXCEPT !["test"] = @ + 1]
    /\ \E e1 \in SinkEnvs(Sink, maxfail) :
         LET prolific_pid == Str(<<"DEBUG_PID">>)
             bot_id == <<"LongBot1">>
             Seen(S, role, content) ==
                 \E i \in DOMAIN S.calls :
                     S.calls[i] = [pid |-> prolific_pid, bot |-> Str(bot_id),
                                   role |-> role, content |-> content]
             R1 == IF Seen(Sink, "user", <<"Test user message">>) THEN Sink
                   ELSE log_to_sheets(Sink, prolific_pid, Str(bot_id), "user",
                                      <<"Test user message">>, e1)
         IN  \E e2 \in SinkEnvs(R1, maxfail) :
               LET R2 == IF R1.raised \/ Seen(R1, "assistant", <<"Test assistant reply">>)
                         THEN R1
                         ELSE log_to_sheets(R1, prolific_pid, Str(bot_id), "assistant",
                                            <<"Test assistant reply">>, e2)
               IN  /\ SetSink(R2)
                   /\ task' = [task EXCEPT ![t] =
                         [InitTask EXCEPT
                            !.pc = "done", !.kind = "test",
                            !.prolific_pid = prolific_pid, !.bot_id = bot_id,
                            !.calls0 = Len(calls), !.completions0 = completions,
                            !.response = TestLogResponse(IF R2.raised THEN "error"
                                                         ELSE "success")]]
    /\ UNCHANGED <<sheet, client, conversations, appended, completions, running>>

\* main.py:301-311: the handler has no await; the second call is made only
\* if the first returned, and an exception is answered with status "error"
test_log(t, max, maxfail) ==
    /\ running = 0
    /\ FreeSlot(t)
    /\ Received < max
    /\ received' = [received EXCEPT !["test"] = @ + 1]
    /\ \E e1 \in SinkEnvs(Sink, maxfail) :
         LET prolific_pid == Str(<<"DEBUG_PID">>)
             bot_id == <<"LongBot1">>
             R1 == log_to_sheets(Sink, prolific_pid, Str(bot_id), "user",
                                 <<"Test user message">>, e1)
         IN  \E e2 \in SinkEnvs(R1, maxfail) :
               LET R2 == IF R1.raised THEN R1
                         ELSE log_to_sheets(R1, prolific_pid, Str(bot_id), "assistant",
                                            <<"Test assistant reply">>, e2)
               IN  /\ SetSink(R2)
                   /\ task' = [task EXCEPT ![t] =
                         [InitTask EXCEPT
                            !.pc = "done", !.kind = "test",
                            !.prolific_pid = prolific_pid, !.bot_id = bot_id,
                            !.calls0 = Len(calls), !.completions0 = completions,
                            !.response = TestLogResponse(IF R2.raised THEN "error"
                                                         ELSE "success")]]
    /\ UNCHANGED <<sheet, client, conversations, appended, completions, running>>

(* ------------------------------ inputs -------------------------------- *)
Obj(prolific_pid, test_pid, pid, bot, message) ==
    [kind |-> "object", prolific_pid |-> prolific_pid, test_pid |-> test_pid,
     pid |-> pid, bot |-> bot, message |-> message]

\* bodies of POST /api/chat that pass validation
ValidPayloads ==
    { Obj(Absent, Str(<<>>), Str(<<"P1">>), Str(<<"1">>), Str(<<" ", "Hi", "\n">>)),
      Obj(Absent, Absent, Absent, Str(<<"9">>), Str(<<"a", "\n", "b">>)) }

\* bodies whose message is empty after trimming, or whose bot is empty
EmptyFieldPayloads ==
    { Obj(Str(<<"P1">>), Absent, Absent, Str(<<"1">>), Absent),
      Obj(Str(<<"P1">>), Absent, Absent, Str(<<"1">>), Str(<<>>)),
      Obj(Str(<<"P1">>), Absent, Absent, Str(<<"1">>), Str(<<" ", "\n">>)),
      Obj(Str(<<"P1">>), Absent, Absent, Absent, Str(<<"Hi">>)),
      Obj(Str(<<"P1">>), Absent, Absent, Str(<<>>), Str(<<"Hi">>)),
      Obj(Str(<<"P1">>), Absent, Absent, Absent, Absent) }

\* bodies that are no JSON, no JSON object, or whose message is no string
MalformedPayloads ==
    { [NoPayload EXCEPT !.kind = "invalid"],
      [NoPayload EXCEPT !.kind = "array"],
      Obj(Str(<<"P1">>), Absent, Absent, Str(<<"1">>), None),
      Obj(Str(<<"P1">>), Absent, Absent, Str(<<"1">>), Num(<<"5">>)),
      Obj(Str(<<"P1">>), Absent, Absent, Absent, None) }

Payloads == ValidPayloads \cup EmptyFieldPayloads \cup MalformedPayloads

\* first-choice contents the completion service returns
Contents == { Str(<<" ", "47", "\n">>), None }

\* query strings of POST /api/session
Queries ==
    { [pid |-> Str(<<"P1">>), bot |-> Str(<<"3">>)],
      [pid |-> Absent, bot |-> Absent] }

\* SpecStore: the n-th request carries a message of its own and the n-th
\* completion a reply of its own (the store never reads the texts, so
\* distinct texts are the general case for what it keeps and in what order)
StorePayloads(n) ==
    { Obj(pid, Absent, Absent, Str(<<"1">>), Str(<<"m" \o ToString(n)>>)) :
        pid \in {Str(<<"P1">>), Absent} }

StoreContents(n) == { Str(<<"r" \o ToString(n)>>) }

\* SpecResolve: every bot code of the map, codes outside it, and no code
BotParams ==
    { Str(<<c>>) : c \in DOMAIN BOT_ID_MAP } \cup
    { Str(<<"9">>), Str(<<"0">>), Str(<<"1", "0">>), Str(<<"LongBot3">>),
      Str(<<" ", "3">>), Num(<<"3">>), Str(<<>>), Absent }

ResolvePayloads ==
    { Obj(Str(<<"P1">>), Absent, Absent, b, Str(<<"Hi">>)) : b \in BotParams }

\* a query parameter is a string or absent
ResolveQueries ==
    { [pid |-> Str(<<"P1">>), bot |-> b] : b \in { x \in BotParams : x.t # "num" } }

(* --------------------------- specifications --------------------------- *)
\* all three endpoints, with a failing sink
Next ==
    \/ \E t \in Tasks, p \in Payloads : ChatArrive(t, p, MaxRequests)
    \/ \E t \in Tasks : ChatParse(t)
    \/ \E t \in Tasks : ChatStore(t)
    \/ \E t \in Tasks : ChatLogUser(t, MaxSinkFailures)
    \/ \E t \in Tasks : ChatComplete(t, Contents)
    \/ \E t \in Tasks : ChatLogAssistant(t, MaxSinkFailures)
    \/ \E t \in Tasks : ChatRespond(t)
    \/ \E t \in Tasks, q \in Queries : new_session(t, q, MaxRequests, MaxSinkFailures)
    \/ \E t \in Tasks : test_log(t, MaxRequests, MaxSinkFailures)

Spec == Init /\ [][Next]_vars

\* sequential Chat Turn requests, long enough to fill a history
NextStore ==
    \/ \E p \in StorePayloads(received["chat"]) : ChatArrive(1, p, MaxChats)
    \/ ChatParse(1)
    \/ ChatStore(1)
    \/ ChatLogUser(1, 0)
    \/ ChatComplete(1, StoreContents(completions))
    \/ ChatLogAssistant(1, 0)
    \/ ChatRespond(1)

SpecStore == Init /\ [][NextStore]_vars

\* one request, over every bot code
NextResolve ==
    \/ \E p \in ResolvePayloads : ChatArrive(1, p, MaxResolve)
    \/ ChatParse(1)
    \/ ChatStore(1)
    \/ ChatLogUser(1, 0)
    \/ ChatComplete(1, Contents)
    \/ ChatLogAssistant(1, 0)
    \/ ChatRespond(1)
    \/ \E q \in ResolveQueries : new_session(1, q, MaxResolve, 0)

SpecResolve == Init /\ [][NextResolve]_vars

(* ======================== properties checked ========================== *)
Min(a, b) == IF a < b THEN a ELSE b

\* the last n elements of s
LastN(s, n) == SubSeq(s, Len(s) - n + 1, Len(s))

\* C1: in every reachable state the stored history of every conversation key
\* has at most 10 turns, the state right after an assistant turn was appended
\* included.  (Refuted under SpecStore: main.py:287 appends the assistant turn
\* and nothing cuts the list until the next request, so it holds 11 turns.)
C1_HistoryAtMostTen ==
    \A k \in DOMAIN conversations : Len(conversations[k]) <= MaxHistory

\* C2: for every conversation key, after N turns were appended by sequential
\* chat requests, the stored history has length min(N, 10) and is the last
\* min(N, 10) appended turns in their order.  (Refuted under SpecStore at
\* N = 12, for the reason C1 is: the stored history is then the last 11.)
C2_MostRecentTen ==
    \A k \in DOMAIN conversations :
        LET N == Len(appended[k])
        IN  /\ Len(conversations[k]) = Min(N, MaxHistory)
            /\ conversations[k] = LastN(appended[k], Min(N, MaxHistory))

\* the bodies C3 speaks of: a JSON object whose message is empty once
\* trimmed (absent, empty, whitespace only), or whose bot is absent or empty
Rejected(p) ==
    /\ p.kind = "object"
    /\ \/ /\ HasStrip(Get(p.message, Str(<<>>)))
          /\ strip(Get(p.message, Str(<<>>)).s) = <<>>
       \/ p.bot \in {Absent, Str(<<>>)}

\* C3: a chat request whose trimmed message is empty or whose bot code is
\* absent or empty is answered 400 with an error body, and the step that
\* answers it changes neither the store, nor the log (calls, remote appends,
\* fallback file), nor the number of completion calls.  (Refuted: with no bot
\* and a message that is null or a number, line 241 raises before any check
\* and the request ends in an unhandled error; see C5.)
C3_RejectedWithoutEffect ==
    [][\A t \in Tasks :
         (task[t].pc = "json" /\ task'[t].pc # "json" /\ Rejected(task[t].payload))
         => /\ task'[t].pc = "done"
            /\ task'[t].response.status = 400
            /\ DOMAIN task'[t].response.body = {"error"}
            /\ UNCHANGED <<conversations, calls, remote, backup, completions>>]_vars

\* C4: when the completion client is unavailable (never initialised, or the
\* call fails), a valid chat turn has the fixed apology as its reply, hands
\* the sink an assistant row whose content is the apology (the second row of
\* the request), which the sink attempts to append when the sheet handle
\* exists, and answers 200 {reply: apology, session_id}.
C4_ApologyOnFailure ==
    \A t \in Tasks :
        (task[t].kind = "chat" /\ task[t].completed = "failed")
        => /\ task[t].reply = APOLOGY
           /\ task[t].pc \in {"respond", "done"}
              => /\ Len(calls) >= task[t].calls0 + 2
                 /\ calls[task[t].calls0 + 2] =
                        [pid |-> task[t].prolific_pid, bot |-> Str(task[t].bot_id),
                         role |-> "assistant", content |-> APOLOGY]
                 /\ sheet = "worksheet"
                    => /\ Len(remote) >= task[t].calls0 + 2
                       /\ remote[task[t].calls0 + 2].row.role = "assistant"
                       /\ remote[task[t].calls0 + 2].row.content = APOLOGY
           /\ task[t].pc = "done"
              => /\ task[t].response.status = 200
                 /\ DOMAIN task[t].response.body = {"reply", "session_id"}
                 /\ task[t].response.body["reply"] = APOLOGY

\* C4 witness: a chat turn answered after the remote completion call failed,
\* with the sheet handle available
C4_Witness ==
    \E t \in Tasks :
        /\ task[t].kind = "chat" /\ task[t].pc = "done"
        /\ task[t].completed = "failed"
        /\ client = "OpenAI" /\ sheet = "worksheet"
        /\ task[t].response.body["reply"] = APOLOGY
        /\ completions > task[t].completions0

\* C5: every POST /api/chat ends in 400 {error} or 200 {reply, session_id},
\* whatever the body.  (Refuted: a body that is JSON but no object, or whose
\* message is null or no string, raises AttributeError at line 239 or 241,
\* outside any try, and the request ends in an unhandled error.)
C5_WellFormedResponse ==
    \A t \in Tasks :
        (task[t].kind = "chat" /\ task[t].pc = "done")
        => \/ /\ task[t].response.status = 400
              /\ DOMAIN task[t].response.body = {"error"}
           \/ /\ task[t].response.status = 200
              /\ DOMAIN task[t].response.body = {"reply", "session_id"}

\* C6: log_to_sheets returns normally in each of its four cases (no sheet
\* handle; append succeeds; append fails and the fallback write succeeds;
\* append fails and the fallback write fails), so every answered request
\* has the response it has when logging succeeds: Create Session 200 with
\* its three fields, Test Log "success", a validated Chat Turn 200 with the
\* reply.
C6_SinkNeverRaises ==
    /\ \A e \in [append_ok : BOOLEAN, write_ok : BOOLEAN] :
         ~log_to_sheets(Sink, Str(<<"P1">>), Str(<<"LongBot1">>), "user", <<"Hi">>, e).raised
    /\ \A t \in Tasks :
         task[t].pc = "done"
         => /\ task[t].kind = "session"
               => /\ task[t].response.status = 200
                  /\ DOMAIN task[t].response.body = {"session_id", "prolific_pid", "bot_id"}
            /\ task[t].kind = "test"
               => task[t].response = TestLogResponse("success")
            /\ (task[t].kind = "chat" /\ ParseOutcome(task[t].payload) = "ok")
               => /\ task[t].response.status = 200
                  /\ task[t].response.body["reply"] = task[t].reply

\* C6 witness: a request was answered normally although its first row failed
\* both at the remote append and at the fallback write
C6_Witness ==
    \E t \in Tasks :
        /\ task[t].pc = "done" /\ task[t].response.status = 200
        /\ task[t].kind \in {"chat", "session", "test"}
        /\ Len(remote) > task[t].calls0
        /\ ~remote[task[t].calls0 + 1].ok
        /\ ~remote[task[t].calls0 + 1].written
        /\ backup = <<>>

\* the remote append attempts made by the step
NewAttempts == SubSeq(remote', Len(remote) + 1, Len(remote'))

\* the text C7 expects in the fallback file for a sequence of attempts: the
\* line of every failed attempt
RECURSIVE FailedText(_)
FailedText(as) ==
    IF as = <<>> THEN <<>>
    ELSE (IF ~Head(as).ok THEN BackupLine(Head(as).row) ELSE <<>>)
             \o FailedText(Tail(as))

\* the text of the attempts whose fallback write went through
RECURSIVE WrittenText(_)
WrittenText(as) ==
    IF as = <<>> THEN <<>>
    ELSE (IF Head(as).written THEN BackupLine(Head(as).row) ELSE <<>>)
             \o WrittenText(Tail(as))

\* the line terminators of that text: one per record, and those of its content
RECURSIVE WrittenNewlines(_)
WrittenNewlines(as) ==
    IF as = <<>> THEN 0
    ELSE (IF Head(as).written THEN 1 + Newlines(Head(as).row.content) ELSE 0)
             + WrittenNewlines(Tail(as))

UserRow(k) ==
    [pid |-> ResolvePid(k.payload), bot |-> Str(ChatBotId(k.payload.bot)),
     role |-> "user", content |-> strip(k.payload.message.s)]

AssistantRow(k) ==
    [pid |-> ResolvePid(k.payload), bot |-> Str(ChatBotId(k.payload.bot)),
     role |-> "assistant", content |-> k.reply]

UserTurnIsLast(k) ==
    /\ k.conv_key \in DOMAIN conversations
    /\ conversations[k.conv_key] # <<>>
    /\ conversations[k.conv_key][Len(conversations[k.conv_key])]
           = [role |-> "user", content |-> strip(k.payload.message.s)]

\* C8: a chat turn that passed validation hands the sink exactly two rows:
\* the user row with the trimmed message, after the user turn is stored and
\* before the completion service is called, then the assistant row with the
\* returned reply, after the completion call ended; both carry the resolved
\* participant id and bot id.
C8_TwoRowsInOrder ==
    \A t \in Tasks :
        LET k == task[t]
            n == k.calls0
        IN  k.kind = "chat" =>
            /\ k.pc = "store" => (Len(calls) = n /\ completions = k.completions0)
            /\ k.pc = "log_user"
               => (Len(calls) = n /\ completions = k.completions0 /\ UserTurnIsLast(k))
            /\ k.pc = "complete"
               => /\ Len(calls) = n + 1 /\ calls[n + 1] = UserRow(k)
                  /\ completions = k.completions0
                  /\ UserTurnIsLast(k)
            /\ k.pc = "log_assistant"
               => /\ Len(calls) = n + 1 /\ calls[n + 1] = UserRow(k)
                  /\ client = "OpenAI" => completions = k.completions0 + 1
            /\ k.pc = "respond"
               => /\ Len(calls) = n + 2
                  /\ calls[n + 1] = UserRow(k) /\ calls[n + 2] = AssistantRow(k)
            /\ (k.pc = "done" /\ ParseOutcome(k.payload) = "ok")
               => /\ Len(calls) >= n + 2
                  /\ calls[n + 1] = UserRow(k) /\ calls[n + 2] = AssistantRow(k)
                  /\ k.response.status = 200
                  /\ k.response.body["reply"] = calls[n + 2].content

\* C8 witness: a chat turn answered with the service's reply, whose message
\* arrived with surrounding whitespace, and whose two rows are the last two
C8_Witness ==
    \E t \in Tasks :
        /\ task[t].kind = "chat" /\ task[t].pc = "done"
        /\ task[t].completed = "ok"
        /\ task[t].payload.message.s # task[t].user_msg
        /\ Len(calls) = task[t].calls0 + 2
        /\ calls[Len(calls)].content = <<"47">>

\* the bot identity C9 expects for a non-empty code
ExpectedBot(code) ==
    IF Len(code) = 1 /\ code[1] \in {"1", "2", "3", "4", "5", "6", "7", "8"}
    THEN <<"LongBot" \o code[1]>>
    ELSE code

\* C9: in Create Session and in Chat Turn each code "1".."8" resolves to
\* "LongBot1".."LongBot8" and any other non-empty code to itself; in Create
\* Session an empty or absent code resolves to "UnknownBot".  The resolved
\* identity is the one answered, logged and used in the conversation key.
C9_BotResolution ==
    \A t \in Tasks :
        LET k == task[t]
            b == k.payload.bot
        IN  /\ (k.kind = "session" /\ k.pc = "done")
               => LET want == IF b.t = "str" /\ b.s # <<>>
                              THEN ExpectedBot(b.s) ELSE <<"UnknownBot">>
                  IN  /\ k.bot_id = want
                      /\ k.response.body["bot_id"] = want
                      /\ calls[k.calls0 + 1].bot = Str(want)
            /\ (k.kind = "chat" /\ b.t = "str" /\ b.s # <<>>
                  /\ k.pc \in {"store", "log_user", "complete", "log_assistant",
                               "respond", "done"})
               => /\ k.bot_id = ExpectedBot(b.s)
                  /\ k.conv_key = PyStr(k.prolific_pid) \o <<":">> \o ExpectedBot(b.s)
                  /\ k.pc = "done" => calls[k.calls0 + 1].bot = Str(ExpectedBot(b.s))

\* C9 witness: a Chat Turn with code "3" was answered under "LongBot3"
C9_Witness ==
    \E t \in Tasks :
        /\ task[t].kind = "chat" /\ task[t].pc = "done"
        /\ task[t].payload.bot = Str(<<"3">>)
        /\ task[t].bot_id = <<"LongBot3">>
        /\ task[t].response.status = 200

CannedUser ==
    [pid |-> Str(<<"DEBUG_PID">>), bot |-> Str(<<"LongBot1">>),
     role |-> "user", content |-> <<"Test user message">>]

CannedAssistant ==
    [pid |-> Str(<<"DEBUG_PID">>), bot |-> Str(<<"LongBot1">>),
     role |-> "assistant", content |-> <<"Test assistant reply">>]

IsCanned(c) == c \in {CannedUser, CannedAssistant}

\* C10: Test Log is never deduplicated: after k calls of GET /api/test-log
\* the sink was handed exactly 2k canned rows under DEBUG_PID / LongBot1,
\* each canned user row directly followed by its canned assistant row,
\* whatever other rows there are; with a sheet handle each of them was an
\* append attempt.
C10_TestLogNeverDeduplicated ==
    /\ Len(SelectSeq(calls, IsCanned)) = 2 * received["test"]
    /\ \A i \in DOMAIN calls :
         calls[i] = CannedUser => (i < Len(calls) /\ calls[i + 1] = CannedAssistant)
    /\ sheet = "worksheet"
       => /\ Len(remote) = Len(calls)
          /\ \A i \in DOMAIN calls :
               IsCanned(calls[i])
               => /\ remote[i].row.pid = <<"DEBUG_PID">>
                  /\ remote[i].row.bot = <<"LongBot1">>
                  /\ remote[i].row.content = calls[i].content

\* C10 witness: two Test Log calls were answered and four canned rows emitted
C10_Witness ==
    /\ received["test"] = 2
    /\ \A t \in Tasks : task[t].pc \in {"idle", "done"}
    /\ Len(SelectSeq(calls, IsCanned)) = 4
    /\ sheet = "worksheet"

\* C11: every Create Session call hands the sink exactly one row and no
\* other: role "session", the participant id of the query (NO_PID when
\* absent), the resolved bot id, and content "session_created:" followed by
\* the session identifier the response returns as session_id; with a sheet
\* handle that row is the one remote append attempt of the call.
C11_OneSessionRow ==
    [][received'["session"] # received["session"]
       => \E t \in Tasks :
            LET k == task'[t]
                want == IF k.payload.bot.t = "str" /\ k.payload.bot.s # <<>>
                        THEN ExpectedBot(k.payload.bot.s) ELSE <<"UnknownBot">>
            IN  /\ task[t] # k
                /\ k.kind = "session" /\ k.pc = "done"
                /\ k.response.status = 200
                /\ k.response.body["bot_id"] = want
                /\ calls' = Append(calls,
                       [pid |-> Get(k.payload.pid, Str(<<"NO_PID">>)),
                        bot |-> Str(want), role |-> "session",
                        content |-> <<"session_created:">>
                                        \o k.response.body["session_id"]])
                /\ IF sheet = "worksheet"
                   THEN /\ Len(remote') = Len(remote) + 1
                        /\ remote'[Len(remote')].row.role = "session"
                        /\ remote'[Len(remote')].row.content
                               = <<"session_created:">> \o k.response.body["session_id"]
                   ELSE remote' = remote]_vars

\* C11 witness: a Create Session call was answered with identifier id-b and
\* its row is the last one handed to the sink and attempted remotely
C11_Witness ==
    \E t \in Tasks :
        /\ task[t].kind = "session" /\ task[t].pc = "done"
        /\ task[t].response.body["session_id"] = <<"id-b">>
        /\ Len(calls) = task[t].calls0 + 1
        /\ calls[Len(calls)].content = <<"session_created:", "id-b">>
        /\ sheet = "worksheet" /\ Len(remote) = Len(calls)

\* the turn a chat request appends for its user message
UserTurn(k) == [role |-> "user", content |-> k.user_msg]

\* C12: on the step of a Chat Turn that makes (or skips, without a client)
\* the completion call, a failed call leaves the whole store as the user
\* append left it, with the request's user turn last under its key, and an
\* assistant turn is appended only by a successful call, holding the reply
\* of the response; the rest of the request (second log row, response) does
\* not touch the store either.
C12_NoRollbackNoStoredApology ==
    [][\A t \in Tasks :
         LET k == task[t]
             n == task'[t]
             h == conversations[k.conv_key]
         IN  /\ (k.pc = "complete" /\ n.pc = "log_assistant")
                => /\ h # <<>> /\ h[Len(h)] = UserTurn(k)
                   /\ IF n.completed = "ok"
                      THEN /\ conversations' = [conversations EXCEPT ![k.conv_key] =
                                 Append(h, [role |-> "assistant", content |-> n.reply])]
                           /\ completions' = completions + 1
                      ELSE /\ n.completed = "failed"
                           /\ conversations' = conversations
                           /\ n.reply = APOLOGY
             /\ (k.pc \in {"log_assistant", "respond"} /\ n # k)
                => /\ conversations' = conversations
                   /\ n.reply = k.reply
                   /\ k.completed = "failed"
                      => conversations[k.conv_key][Len(conversations[k.conv_key])]
                             = UserTurn(k)
                   /\ k.completed = "ok"
                      => conversations[k.conv_key][Len(conversations[k.conv_key])]
                             = [role |-> "assistant", content |-> k.reply]
                   /\ n.pc = "done"
                      => (n.response.status = 200
                          /\ n.response.body["reply"] = k.reply)]_vars

\* C12 witness: a Chat Turn whose completion call was made and failed has
\* been answered, and its user turn is the last turn under its key
C12_Witness ==
    \E t \in Tasks :
        /\ task[t].kind = "chat" /\ task[t].pc = "done"
        /\ task[t].completed = "failed"
        /\ client = "OpenAI" /\ completions > task[t].completions0
        /\ task[t].response.body["reply"] = APOLOGY
        /\ conversations[task[t].conv_key] = <<UserTurn(task[t])>>

\* C13: whenever the completion service was called for a Chat Turn, the
\* message list it received is the system instruction followed by at most
\* MaxHistory history turns, the system instruction is its first message and
\* its only message of role system, and its last message is the user turn
\* of that request.
C13_MessageList ==
    \A t \in Tasks :
        LET k == task[t]
            m == k.messages
        IN  (k.kind = "chat" /\ m # <<>>)
            => /\ m[1] = [role |-> "system", content |-> SYSTEM_PROMPT]
               /\ \A i \in 2..Len(m) : m[i].role \in {"user", "assistant"}
               /\ Len(m) >= 2
               /\ Len(m) <= MaxHistory + 1
               /\ m[Len(m)] = UserTurn(k)

\* C13 witness: the service was called with a full list (the system
\* instruction and MaxHistory turns) after the cut dropped the oldest turn
\* of the key, so the history part starts with an assistant turn
C13_Witness ==
    /\ task[1].kind = "chat" /\ task[1].pc = "log_assistant"
    /\ Len(task[1].messages) = MaxHistory + 1
    /\ task[1].messages[2].role = "assistant"
    /\ Len(appended[task[1].conv_key]) > MaxHistory
    /\ conversations[task[1].conv_key][1] # appended[task[1].conv_key][1]

\* the positions between a handler's user append and its response: the
\* log appends and the completion call are made from here
Waiting == {"log_user", "complete", "log_assistant"}

\* the Participant Key a pending chat request will use
PendingKey(k) ==
    ConvKey(ResolvePid(k.payload), ChatBotId(Get(k.payload.bot, Str(<<>>))))

\* C14: two concurrent Chat Turn requests for one Participant Key can
\* interleave their read-modify-write of the history: while one of them is
\* between its user append and its response, the other, already received
\* and valid for the same key, can take its next step (read the store and
\* append its own user turn).
C14_CanInterleave ==
    \A t \in Tasks, u \in Tasks :
        (/\ t # u
         /\ task[t].kind = "chat" /\ task[t].pc \in Waiting
         /\ task[u].kind = "chat" /\ task[u].pc = "json"
         /\ ParseOutcome(task[u].payload) = "ok"
         /\ PendingKey(task[u]) = task[t].conv_key)
        => ENABLED ChatParse(u)

\* C15: while one request's handler is waiting for the completion service
\* or for the remote log append, other requests are not blocked: a request
\* already received can go on, and the handler of a new request can start
\* and run to its response.
C15_OthersNotBlocked ==
    \A t \in Tasks :
        (/\ task[t].kind = "chat"
         /\ \/ task[t].pc = "complete" /\ client = "OpenAI"
            \/ task[t].pc \in {"log_user", "log_assistant"} /\ sheet = "worksheet")
        => /\ \A u \in Tasks : task[u].pc = "json" => ENABLED ChatParse(u)
           /\ (Received < MaxRequests /\ \E u \in Tasks : FreeSlot(u))
              => ENABLED (\E u \in Tasks :
                            test_log(u, MaxRequests, MaxSinkFailures))

\* C16: the key set of the Conversation Store only grows, and a step adds a
\* key only when it is the store step of a Chat Turn whose body passed
\* validation, the key added being the one key of that request (participant
\* id, ":", resolved bot id), with the request's user turn as its history.
C16_KeysOnlyGrow ==
    [][/\ DOMAIN conversations \subseteq DOMAIN conversations'
       /\ DOMAIN conversations' # DOMAIN conversations
          => \E t \in Tasks :
               /\ running = t
               /\ task[t].kind = "chat" /\ task[t].pc = "store"
               /\ task'[t].pc = "log_user"
               /\ ParseOutcome(task[t].payload) = "ok"
               /\ task[t].conv_key = PendingKey(task[t])
               /\ DOMAIN conversations'
                     = DOMAIN conversations \cup {task[t].conv_key}
               /\ conversations'[task[t].conv_key] = <<UserTurn(task[t])>>]_vars

\* C16 witness: two Chat Turns created two keys, and the key of the first,
\* already answered, is still there after the second was created
C16_Witness ==
    /\ Cardinality(DOMAIN conversations) = 2
    /\ \A t \in Tasks : task[t].kind = "chat" /\ task[t].conv_key \in DOMAIN conversations
    /\ task[1].conv_key # task[2].conv_key
    /\ task[1].pc = "done"

\* C17: a step of a Chat Turn for key K leaves the history of every other
\* key of the store as it was, and changes the history of K only at its
\* store step and its completion step; a step that serves Create Session or
\* Test Log, or receives or rejects a request, leaves the whole store
\* unchanged.
C17_StoreFrame ==
    [][/\ \A k \in DOMAIN conversations :
            (k \notin DOMAIN conversations' \/ conversations'[k] # conversations[k])
            => \E t \in Tasks :
                 /\ running = t
                 /\ task[t].kind = "chat"
                 /\ task[t].pc \in {"store", "complete"}
                 /\ task[t].conv_key = k
                 /\ task[t].conv_key = PendingKey(task[t])
       /\ \A k \in DOMAIN conversations' \ DOMAIN conversations :
            \E t \in Tasks :
                 /\ running = t
                 /\ task[t].kind = "chat" /\ task[t].pc = "store"
                 /\ task[t].conv_key = k
       /\ (received' # received \/ running = 0) => conversations' = conversations]_vars

\* C17 witness: the store holds two keys; a Chat Turn for the second one
\* has appended its user and assistant turns while the answered first
\* request's history is still its own two turns
C17_Witness ==
    /\ Cardinality(DOMAIN conversations) = 2
    /\ task[1].kind = "chat" /\ task[1].pc = "done" /\ task[1].completed = "ok"
    /\ task[2].kind = "chat" /\ task[2].completed = "ok"
    /\ task[1].conv_key # task[2].conv_key
    /\ conversations[task[1].conv_key]
          = <<UserTurn(task[1]), [role |-> "assistant", content |-> task[1].reply]>>
    /\ conversations[task[2].conv_key]
          = <<UserTurn(task[2]), [role |-> "assistant", content |-> task[2].reply]>>

====
